---- MODULE Spec2Model ----
(***************************************************************************)
(* Tick-driven spatial-crowdsourcing simulator (maxowbricker/sc_sim):      *)
(* the StateManager pools, the Worker / Task objects, the greedy and       *)
(* composite strategies and the run_simulation loop.                       *)
(*                                                                         *)
(* Units.  Coordinates are integers in tenths of a degree; every modelled  *)
(* point lies on the equator (latitude 0), where cos(radians(avg_lat)) is  *)
(* exactly 1.  Distances are in units of 0.1 km, so one tenth of a degree  *)
(* is 111 units.  Times are integers in units of 444 s: at 30 km/h one     *)
(* tenth of a degree (11.1 km) takes 1332 s = 3 time units, so every       *)
(* travel time of the modelled inputs is a whole number of units.          *)
(* The fairness signal is an exact decimal [num, exp] = num / 10^exp.      *)
(***************************************************************************)
EXTENDS Integers, Sequences, FiniteSets, TLC

\* ----------------------------------------------------------------- bounds
NumWorkers == 2
NumTasks == 2
MaxTick == 4
MaxLen == 3      \* longest list of counts given to _jains_fairness directly
MaxCount == 3    \* largest count in such a list

\* ------------------------------------------------------ program constants
None == -1
AVG_SPEED_KMH == 30
km_per_deg == 111
GammaTenths == 3
DefaultTeleport == TRUE

WorkerIds == 1..NumWorkers
TaskIds == 1..NumTasks

\* ------------------------------------------------------------ the inputs
\* Worker{start_lat, start_lon, release_time, deadline}
WorkerInputs ==
  { [start_lat |-> 0, start_lon |-> 0, release_time |-> 0, deadline |-> 20],
    [start_lat |-> 0, start_lon |-> 1, release_time |-> 0, deadline |-> 4],
    [start_lat |-> 0, start_lon |-> 2, release_time |-> 3, deadline |-> 20] }

\* the workers of the strategy driver: one more, at the third task's pickup
\* with a late deadline
DriverWorkerInputs ==
  WorkerInputs
  \cup { [start_lat |-> 0, start_lon |-> 1, release_time |-> 0, deadline |-> 20] }

\* Task{pickup, dropoff, release_time, expire_time}
TaskInputs ==
  { [pickup_lat |-> 0, pickup_lon |-> 1, dropoff_lat |-> 0, dropoff_lon |-> 0,
     release_time |-> 0, expire_time |-> 20],
    [pickup_lat |-> 0, pickup_lon |-> 0, dropoff_lat |-> 0, dropoff_lon |-> 0,
     release_time |-> 1, expire_time |-> 20],
    [pickup_lat |-> 0, pickup_lon |-> 1, dropoff_lat |-> 0, dropoff_lon |-> 2,
     release_time |-> 2, expire_time |-> 5] }

TimeSteps == {2}
StrategyNames == {"greedy", "composite", "fatp"}
ServiceModes == {"instant", "distance"}

VARIABLES
  all_workers, all_tasks,            \* pending pools
  available_workers, active_tasks,   \* released pools
  assigned_tasks, assigned_workers,  \* busy pools
  completed_tasks,                   \* finished tasks
  worker, task,                      \* the Worker / Task objects, by id
  cfg, end_time, time_step,          \* run_simulation's arguments
  has_worker_id,                     \* whether the Task objects carry a worker_id attribute
  current_time, tick, assignments,   \* run_simulation's locals
  pc, error,                         \* position in the loop, exception raised
  last, pre, released_at,            \* history: last call, the world before it, release log
  decisions,                         \* history: the last matching pass, task by task
  snapshot                           \* metrics_tracker._records, the last record only

pools == <<all_workers, all_tasks, available_workers, active_tasks,
           assigned_tasks, assigned_workers, completed_tasks>>
vars == <<all_workers, all_tasks, available_workers, active_tasks,
          assigned_tasks, assigned_workers, completed_tasks, worker, task,
          cfg, end_time, time_step, current_time, tick, assignments,
          has_worker_id, pc, error, last, pre, released_at, decisions, snapshot>>

\* ------------------------------------------------------- list primitives
InSeq(x, s) == \E i \in 1..Len(s) : s[i] = x

Count(x, s) == Cardinality({i \in 1..Len(s) : s[i] = x})

\* list.remove(x): drops the first occurrence (the caller checks membership)
RemoveFirst(s, x) ==
  LET i == CHOOSE k \in 1..Len(s) : s[k] = x /\ \A j \in 1..(k-1) : s[j] # x
  IN SubSeq(s, 1, i-1) \o SubSeq(s, i+1, Len(s))

\* ------------------------------------------------------------ the objects
NewWorker(d, g) ==
  [start_lat |-> d.start_lat, start_lon |-> d.start_lon,
   release_time |-> d.release_time, deadline |-> d.deadline,
   assigned_task |-> None, available |-> TRUE,
   total_idle_time |-> 0, last_state_ts |-> d.release_time,
   gamma |-> g, fairness_ewma |-> [num |-> 0, exp |-> 0],
   completed_tasks |-> 0, revenue |-> 0, last_active_ts |-> None]

NewTask(d) ==
  [pickup_lat |-> d.pickup_lat, pickup_lon |-> d.pickup_lon,
   dropoff_lat |-> d.dropoff_lat, dropoff_lon |-> d.dropoff_lon,
   release_time |-> d.release_time, expire_time |-> d.expire_time,
   assigned_worker |-> None, assigned |-> FALSE,
   finish_time |-> None, start_time |-> None,
   pickup_km |-> None, drop_km |-> None]

\* The StateManager with the objects its pools refer to; exc is the exception
\* a call ended with ("" when it returned).
World ==
  [all_workers |-> all_workers, all_tasks |-> all_tasks,
   available_workers |-> available_workers, active_tasks |-> active_tasks,
   assigned_tasks |-> assigned_tasks, assigned_workers |-> assigned_workers,
   completed_tasks |-> completed_tasks, worker |-> worker, task |-> task,
   exc |-> ""]

Install(s) ==
  /\ all_workers' = s.all_workers
  /\ all_tasks' = s.all_tasks
  /\ available_workers' = s.available_workers
  /\ active_tasks' = s.active_tasks
  /\ assigned_tasks' = s.assigned_tasks
  /\ assigned_workers' = s.assigned_workers
  /\ completed_tasks' = s.completed_tasks
  /\ worker' = s.worker
  /\ task' = s.task

\* ------------------------------------------------------------- geometry
\* cos(radians(avg_lat)): exactly 1 on the equator, the only latitude of the
\* modelled inputs (no other case is defined).
CosAvgLat(lat1, lat2) == CASE lat1 + lat2 = 0 -> 1

Abs(x) == IF x < 0 THEN -x ELSE x

\* Distance in units of 0.1 km between points given in tenths of a degree:
\* fabs(dlat) * 111 + fabs(dlon) * 111 * cos(radians(avg_lat)).
manhattan_km(lat1, lon1, lat2, lon2) ==
  LET d_lat == Abs(lat1 - lat2) * km_per_deg
      d_lon == Abs(lon1 - lon2) * km_per_deg * CosAvgLat(lat1, lat2)
  IN d_lat + d_lon

\* pd.to_timedelta(total_km / AVG_SPEED_KMH, unit="h") in time units of 444 s,
\* for a distance in units of 0.1 km: (d / 10) / 30 h = d * 12 s.
TravelTime(d) == (d * 3600) \div (AVG_SPEED_KMH * 10 * 444)

\* ------------------------------------------------------ Worker / Task methods
RECURSIVE Pow10(_)
Pow10(n) == IF n = 0 THEN 1 ELSE 10 * Pow10(n - 1)

RECURSIVE Normalise(_)
Normalise(f) ==
  IF f.exp > 0 /\ f.num % 10 = 0
  THEN Normalise([num |-> f.num \div 10, exp |-> f.exp - 1])
  ELSE f

\* current_idle_sec + gamma * fairness_ewma: the new measurement unweighted
Ewma_unweighted(idle, f, g) ==
  Normalise([num |-> 10 * idle * Pow10(f.exp) + g * f.num,
             exp |-> f.exp + 1])

\* (1 - gamma) * current_idle_sec + gamma * fairness_ewma, gamma = g / 10,
\* as an exact decimal (in time units)
Ewma(idle, f, g) ==
  Normalise([num |-> (10 - g) * idle * Pow10(f.exp) + g * f.num,
             exp |-> f.exp + 1])

\* update_idle that accumulates for a busy worker too
update_idle_any(w, now) ==
  LET ts == IF w.last_state_ts = None THEN now ELSE w.last_state_ts
      idle == w.total_idle_time + (now - ts)
      w1 == IF now >= ts
            THEN [w EXCEPT !.total_idle_time = idle,
                           !.fairness_ewma = Ewma(idle, w.fairness_ewma, w.gamma)]
            ELSE w
  IN [w1 EXCEPT !.last_state_ts = now]

\* Worker.update_idle
update_idle(w, now) ==
  LET ts == IF w.last_state_ts = None THEN now ELSE w.last_state_ts
      idle == w.total_idle_time + (now - ts)
      w1 == IF w.available /\ now >= ts
            THEN [w EXCEPT !.total_idle_time = idle,
                           !.fairness_ewma = Ewma(idle, w.fairness_ewma, w.gamma)]
            ELSE w
  IN [w1 EXCEPT !.last_state_ts = now]

\* Worker.assign_task
worker_assign_task(w, t) == [w EXCEPT !.assigned_task = t, !.available = FALSE]

\* record_completion that does not count the task
record_completion_no_count(w, now) ==
  [w EXCEPT !.last_active_ts = now, !.available = TRUE]

\* Worker.record_completion (task_revenue defaults to 0.0)
record_completion(w, now) ==
  [w EXCEPT !.completed_tasks = @ + 1, !.revenue = @ + 0,
            !.last_active_ts = now, !.available = TRUE]

\* Task.assign_to_worker
assign_to_worker(t, w) == [t EXCEPT !.assigned_worker = w, !.assigned = TRUE]

\* ------------------------------------------------------------ StateManager
\* line 31 / 39: the entities a release call moves, in pending order
to_release_workers(s, now) ==
  SelectSeq(s.all_workers, LAMBDA w : s.worker[w].release_time <= now)

\* the task filter with < in place of <=
to_release_tasks_strict(s, now) ==
  SelectSeq(s.all_tasks, LAMBDA t : s.task[t].release_time < now)

to_release_tasks(s, now) ==
  SelectSeq(s.all_tasks, LAMBDA t : s.task[t].release_time <= now)

\* release_workers that leaves the released workers in all_workers
release_workers_keeps_pending(s, now) ==
  [s EXCEPT !.available_workers = @ \o to_release_workers(s, now)]

release_workers(s, now) ==
  LET to_release == to_release_workers(s, now)
  IN [s EXCEPT !.available_workers = @ \o to_release,
               !.all_workers = SelectSeq(@, LAMBDA w : ~InSeq(w, to_release))]

\* release_tasks that leaves the released tasks in all_tasks
release_tasks_keeps_pending(s, now) ==
  [s EXCEPT !.active_tasks = @ \o to_release_tasks(s, now)]

release_tasks(s, now) ==
  LET to_release == to_release_tasks(s, now)
  IN [s EXCEPT !.active_tasks = @ \o to_release,
               !.all_tasks = SelectSeq(@, LAMBDA t : ~InSeq(t, to_release))]

\* step, lines 90-91
release(s, now) == release_tasks(release_workers(s, now), now)

\* assign_task that forgets available_workers.remove(worker)
assign_task_keeps_available(s, t, w) ==
  IF ~InSeq(t, s.active_tasks) THEN [s EXCEPT !.exc = "ValueError"]
  ELSE LET s1 == [s EXCEPT !.active_tasks = RemoveFirst(@, t)]
       IN IF ~InSeq(w, s1.available_workers) THEN [s1 EXCEPT !.exc = "ValueError"]
          ELSE [s1 EXCEPT !.assigned_tasks = Append(@, t),
                          !.assigned_workers = Append(@, w)]

\* assign_task leaving the task in the active pool
assign_task_keeps_active(s, t, w) ==
  IF ~InSeq(t, s.active_tasks) THEN [s EXCEPT !.exc = "ValueError"]
  ELSE IF ~InSeq(w, s.available_workers) THEN [s EXCEPT !.exc = "ValueError"]
       ELSE [s EXCEPT !.available_workers = RemoveFirst(@, w),
                      !.assigned_tasks = Append(@, t),
                      !.assigned_workers = Append(@, w)]

\* list.remove raises ValueError when the element is absent; the first remove
\* has taken effect when the second one raises.
assign_task(s, t, w) ==
  IF ~InSeq(t, s.active_tasks) THEN [s EXCEPT !.exc = "ValueError"]
  ELSE LET s1 == [s EXCEPT !.active_tasks = RemoveFirst(@, t)]
       IN IF ~InSeq(w, s1.available_workers) THEN [s1 EXCEPT !.exc = "ValueError"]
          ELSE [s1 EXCEPT !.available_workers = RemoveFirst(@, w),
                          !.assigned_tasks = Append(@, t),
                          !.assigned_workers = Append(@, w)]

\* SIM_CONFIG.get("teleport_on_complete", False): the module-level SIM_CONFIG
teleport_on_complete == DefaultTeleport

\* complete_task that forgets assigned_tasks.remove(task)
complete_task_keeps_assigned(s, t, w, now) ==
  LET s2 == IF InSeq(w, s.assigned_workers)
            THEN [s EXCEPT !.assigned_workers = RemoveFirst(@, w)] ELSE s
      s3 == [s2 EXCEPT !.completed_tasks = Append(@, t)]
  IN IF w = None THEN [s3 EXCEPT !.exc = "AttributeError"]
     ELSE LET s4 == [s3 EXCEPT !.worker[w] = record_completion(@, now)]
              s5 == IF teleport_on_complete
                    THEN [s4 EXCEPT !.worker[w].start_lat = s4.task[t].dropoff_lat,
                                    !.worker[w].start_lon = s4.task[t].dropoff_lon]
                    ELSE s4
          IN [s5 EXCEPT !.available_workers = Append(@, w)]

complete_task(s, t, w, now) ==
  LET s1 == IF InSeq(t, s.assigned_tasks)
            THEN [s EXCEPT !.assigned_tasks = RemoveFirst(@, t)] ELSE s
      s2 == IF InSeq(w, s1.assigned_workers)
            THEN [s1 EXCEPT !.assigned_workers = RemoveFirst(@, w)] ELSE s1
      s3 == [s2 EXCEPT !.completed_tasks = Append(@, t)]
  IN IF w = None THEN [s3 EXCEPT !.exc = "AttributeError"]
     ELSE LET s4 == [s3 EXCEPT !.worker[w] = record_completion(@, now)]
              s5 == IF teleport_on_complete
                    THEN [s4 EXCEPT !.worker[w].start_lat = s4.task[t].dropoff_lat,
                                    !.worker[w].start_lon = s4.task[t].dropoff_lon]
                    ELSE s4
          IN [s5 EXCEPT !.available_workers = Append(@, w)]

\* for w in self.available_workers: w.update_idle(current_time)
RECURSIVE update_idle_all(_, _, _)
update_idle_all(s, ws, now) ==
  IF ws = <<>> THEN s
  ELSE update_idle_all([s EXCEPT !.worker[Head(ws)] = update_idle(@, now)],
                       Tail(ws), now)

\* for task in completed_now: complete_task(task, task.assigned_worker, task.finish_time)
RECURSIVE complete_all(_, _)
complete_all(s, ts) ==
  IF ts = <<>> \/ s.exc # "" THEN s
  ELSE LET t == Head(ts)
       IN complete_all(complete_task(s, t, s.task[t].assigned_worker,
                                     s.task[t].finish_time), Tail(ts))

\* step that also drops the active tasks whose expire_time has passed
step_evicts_expired(s, now) ==
  LET s1 == release(s, now)
      s2 == update_idle_all(s1, s1.available_workers, now)
      completed_now == SelectSeq(s2.assigned_tasks,
                         LAMBDA t : s2.task[t].finish_time # None
                                    /\ s2.task[t].finish_time <= now)
      s3 == complete_all(s2, completed_now)
  IN [s3 EXCEPT !.active_tasks =
        SelectSeq(@, LAMBDA t : s3.task[t].expire_time >= now)]

\* step with the idle update ahead of the release
step_update_first(s, now) ==
  LET s1 == update_idle_all(s, s.available_workers, now)
      s2 == release(s1, now)
      completed_now == SelectSeq(s2.assigned_tasks,
                         LAMBDA t : s2.task[t].finish_time # None
                                    /\ s2.task[t].finish_time <= now)
  IN complete_all(s2, completed_now)

\* StateManager.step
step(s, now) ==
  LET s1 == release(s, now)
      s2 == update_idle_all(s1, s1.available_workers, now)
      completed_now == SelectSeq(s2.assigned_tasks,
                         LAMBDA t : s2.task[t].finish_time # None
                                    /\ s2.task[t].finish_time <= now)
  IN complete_all(s2, completed_now)

\* ----------------------------------------------------------- strategies
\* the scan without the deadline test of line 35
RECURSIVE greedy_scan_any_deadline(_, _, _, _, _)
greedy_scan_any_deadline(s, t, ws, now, best) ==
  IF ws = <<>> THEN best
  ELSE LET w == Head(ws)
           tk == s.task[t]
           dp == manhattan_km(s.worker[w].start_lat, s.worker[w].start_lon,
                              tk.pickup_lat, tk.pickup_lon)
       IN IF best.w = None \/ dp < best.d
          THEN greedy_scan_any_deadline(s, t, Tail(ws), now, [w |-> w, d |-> dp])
          ELSE greedy_scan_any_deadline(s, t, Tail(ws), now, best)

\* the scan with d_pick <= best_d at line 38: the last of the nearest wins
RECURSIVE greedy_scan_last_nearest(_, _, _, _, _)
greedy_scan_last_nearest(s, t, ws, now, best) ==
  IF ws = <<>> THEN best
  ELSE LET w == Head(ws)
           tk == s.task[t]
           dd == manhattan_km(tk.pickup_lat, tk.pickup_lon,
                              tk.dropoff_lat, tk.dropoff_lon)
           dp == manhattan_km(s.worker[w].start_lat, s.worker[w].start_lon,
                              tk.pickup_lat, tk.pickup_lon)
       IN IF now + TravelTime(dp + dd) > s.worker[w].deadline
          THEN greedy_scan_last_nearest(s, t, Tail(ws), now, best)
          ELSE IF best.w = None \/ dp <= best.d
               THEN greedy_scan_last_nearest(s, t, Tail(ws), now, [w |-> w, d |-> dp])
               ELSE greedy_scan_last_nearest(s, t, Tail(ws), now, best)

\* greedy.assign, lines 27-39: the scan of the available workers for one task;
\* best.w = None stands for best_d = inf
RECURSIVE greedy_scan(_, _, _, _, _)
greedy_scan(s, t, ws, now, best) ==
  IF ws = <<>> THEN best
  ELSE LET w == Head(ws)
           tk == s.task[t]
           drop_distance_const == manhattan_km(tk.pickup_lat, tk.pickup_lon,
                                               tk.dropoff_lat, tk.dropoff_lon)
           d_pick == manhattan_km(s.worker[w].start_lat, s.worker[w].start_lon,
                                  tk.pickup_lat, tk.pickup_lon)
           finish_eta == now + TravelTime(d_pick + drop_distance_const)
       IN IF finish_eta > s.worker[w].deadline
          THEN greedy_scan(s, t, Tail(ws), now, best)
          ELSE IF best.w = None \/ d_pick < best.d
               THEN greedy_scan(s, t, Tail(ws), now, [w |-> w, d |-> d_pick])
               ELSE greedy_scan(s, t, Tail(ws), now, best)

\* the commit without best_w.assign_task(task)
greedy_commit_no_backref(s, t, best, now) ==
  LET tk == s.task[t]
      drop_distance == manhattan_km(tk.pickup_lat, tk.pickup_lon,
                                    tk.dropoff_lat, tk.dropoff_lon)
      tk1 == [tk EXCEPT !.pickup_km = best.d,
                        !.drop_km = drop_distance,
                        !.finish_time = now + TravelTime(best.d + drop_distance),
                        !.start_time = now]
      s1 == [s EXCEPT !.task[t] = assign_to_worker(tk1, best.w)]
  IN assign_task(s1, t, best.w)

\* the commit with the finish time computed from the drop distance alone
greedy_commit_drop_only(s, t, best, now) ==
  LET tk == s.task[t]
      drop_distance == manhattan_km(tk.pickup_lat, tk.pickup_lon,
                                    tk.dropoff_lat, tk.dropoff_lon)
      tk1 == [tk EXCEPT !.pickup_km = best.d,
                        !.drop_km = drop_distance,
                        !.finish_time = now + TravelTime(drop_distance),
                        !.start_time = now]
      s1 == [s EXCEPT !.task[t] = assign_to_worker(tk1, best.w),
                      !.worker[best.w] = worker_assign_task(@, t)]
  IN assign_task(s1, t, best.w)

\* greedy.assign, lines 40-55: the commit of task t to worker best.w
greedy_commit(s, t, best, now) ==
  LET tk == s.task[t]
      pickup_distance == best.d
      drop_distance == manhattan_km(tk.pickup_lat, tk.pickup_lon,
                                    tk.dropoff_lat, tk.dropoff_lon)
      total_km == pickup_distance + drop_distance
      tk1 == [tk EXCEPT !.pickup_km = pickup_distance,
                        !.drop_km = drop_distance,
                        !.finish_time = now + TravelTime(total_km),
                        !.start_time = now]
      s1 == [s EXCEPT !.task[t] = assign_to_worker(tk1, best.w),
                      !.worker[best.w] = worker_assign_task(@, t)]
  IN assign_task(s1, t, best.w)

\* history: what a matching pass did with task t: the available pool and the
\* workers it was processed against, the candidates retained for scoring
\* (composite only), the worker committed (None: the task was left active)
\* and whether the world changed
Decision(s, t, now, cands, w, s1) ==
  [t |-> t, now |-> now, avail |-> s.available_workers, wk |-> s.worker,
   cands |-> cands, w |-> w, changed |-> s1 # s]

\* greedy.assign, the loop over list(state.active_tasks)
RECURSIVE greedy_loop(_, _, _, _)
greedy_loop(s, ts, now, acc) ==
  IF ts = <<>> \/ s.exc # "" THEN [s |-> s, assignments |-> acc, log |-> <<>>]
  ELSE LET t == Head(ts)
           best == greedy_scan(s, t, s.available_workers, now,
                               [w |-> None, d |-> None])
           s1 == IF best.w = None THEN s ELSE greedy_commit(s, t, best, now)
           r == greedy_loop(s1, Tail(ts), now,
                            IF best.w # None /\ s1.exc = ""
                            THEN Append(acc, <<t, best.w, best.d>>)
                            ELSE acc)
       IN [r EXCEPT !.log = <<Decision(s, t, now, <<>>, best.w, s1)>> \o @]

greedy_assign(s, now) == greedy_loop(s, s.active_tasks, now, <<>>)

SetMin(S) == CHOOSE x \in S : \A y \in S : x <= y

\* ---- composite.py
\* Scores are fixed-point numbers in units of 1/10000: the weights and the
\* two thresholds are in tenths, the three terms in thousandths.

\* log(1 + seconds) in thousandths, for an age of n time units (444 s each):
\* LnMilli[n + 1] = floor(1000 * ln(1 + 444 * n))
LnMilli == <<0, 6098, 6790, 7195, 7482, 7705, 7887, 8042, 8175, 8293, 8398,
             8493, 8580, 8660, 8735, 8804, 8868>>

\* worker.fairness_ewma, kept in time units, as thousandths of a second
fairness_milli(f) == 444 * ((1000 * f.num) \div Pow10(f.exp))

d_pick(s, t, w) ==
  manhattan_km(s.worker[w].start_lat, s.worker[w].start_lon,
               s.task[t].pickup_lat, s.task[t].pickup_lon)

drop_distance_const(s, t) ==
  manhattan_km(s.task[t].pickup_lat, s.task[t].pickup_lon,
               s.task[t].dropoff_lat, s.task[t].dropoff_lon)

finish_eta(s, t, w, now) ==
  now + TravelTime(d_pick(s, t, w) + drop_distance_const(s, t))

\* score(), lines 17-32; the distance is in tenths of a km, so
\* 1 / (1 + distance) is 10000 / (10 + d) thousandths
score(s, t, w, p, now) ==
  LET fairness == fairness_milli(s.worker[w].fairness_ewma)
      starvation == LnMilli[(now - s.task[t].release_time) + 1]
      utility == 10000 \div (10 + d_pick(s, t, w))
  IN p.lambda1 * fairness + p.lambda2 * starvation + p.lambda3 * utility

\* the feasibility test of line 58 with the deadline test only
feasible_deadline_only(s, t, w, now) ==
  ~ (finish_eta(s, t, w, now) > s.worker[w].deadline)

\* line 58: a pair that is not skipped
feasible(s, t, w, now) ==
  ~ (finish_eta(s, t, w, now) > s.worker[w].deadline
     \/ finish_eta(s, t, w, now) > s.task[t].expire_time)

\* line 64: candidates.sort(key=distance), a stable sort, over the first n
\* entries of ws
RECURSIVE sort_by_distance(_, _, _, _)
sort_by_distance(s, t, ws, n) ==
  IF n = 0 THEN <<>>
  ELSE LET a == sort_by_distance(s, t, ws, n - 1)
           x == ws[n]
       IN SelectSeq(a, LAMBDA v : d_pick(s, t, v) <= d_pick(s, t, x))
          \o <<x>>
          \o SelectSeq(a, LAMBDA v : d_pick(s, t, v) > d_pick(s, t, x))

\* lines 65-66 without the cut to k
nearest_all(c, k) == c

\* lines 65-66: if k > 0: candidates = candidates[:k]
nearest(c, k) ==
  IF k > 0 THEN SubSeq(c, 1, IF k < Len(c) THEN k ELSE Len(c)) ELSE c

\* lines 50-66: the feasible available workers, nearest first, cut to k
candidates(s, t, p, now) ==
  LET c == SelectSeq(s.available_workers, LAMBDA w : feasible(s, t, w, now))
  IN nearest(sort_by_distance(s, t, c, Len(c)), p.k)

SetMax(S) == CHOOSE x \in S : \A y \in S : x >= y

\* lines 75-81: the best score of a non-empty candidate list
best_score(s, t, c, p, now) ==
  SetMax({score(s, t, c[i], p, now) : i \in 1..Len(c)})

\* line 84 always false: the soft threshold never defers
below_threshold_never(best, p) == FALSE

\* line 84: best_score < soft_threshold
below_threshold(best, p) == best < p.soft_threshold * 1000

\* lines 88-89: the candidates with s >= best_score * score_filter
band(s, t, c, p, now) ==
  SelectSeq(c, LAMBDA w : 10 * score(s, t, w, p, now)
                             >= best_score(s, t, c, p, now) * p.score_filter)

\* lines 95-96 without the completed_tasks test
finalists_all(s, scored) == scored

\* lines 95-96: the in-band workers with the fewest completed tasks
finalists(s, scored) ==
  LET min_comp == SetMin({s.worker[scored[i]].completed_tasks : i \in 1..Len(scored)})
  IN SelectSeq(scored, LAMBDA w : s.worker[w].completed_tasks = min_comp)

\* lines 40-97 for one task: the workers random.choice may return; the
\* empty set when the task is skipped (lines 68-69, 84-85, 91-92)
choices(s, t, p, now) ==
  LET c == candidates(s, t, p, now)
  IN IF c = <<>> THEN {}
     ELSE IF below_threshold(best_score(s, t, c, p, now), p) THEN {}
     ELSE LET scored == band(s, t, c, p, now)
          IN IF scored = <<>> THEN {}
             ELSE LET f == finalists(s, scored) IN {f[i] : i \in 1..Len(f)}

\* lines 100-126: the record appended for task t and worker w
composite_record(s, t, w, p, now) ==
  LET fairness_val == fairness_milli(s.worker[w].fairness_ewma)
      starvation_val == LnMilli[(now - s.task[t].release_time) + 1]
      utility_val == 10000 \div (10 + d_pick(s, t, w))
      best_s == p.lambda1 * fairness_val + p.lambda2 * starvation_val
                + p.lambda3 * utility_val
  IN <<t, w, best_s, utility_val, fairness_val, starvation_val>>

\* lines 112-125: the commit of task t to worker w
composite_commit(s, t, w, now) ==
  LET tk == s.task[t]
      pickup_distance == d_pick(s, t, w)
      drop_distance == drop_distance_const(s, t)
      total_km == pickup_distance + drop_distance
      tk1 == [tk EXCEPT !.pickup_km = pickup_distance,
                        !.drop_km = drop_distance,
                        !.finish_time = now + TravelTime(total_km),
                        !.start_time = now]
      s1 == [s EXCEPT !.task[t] = assign_to_worker(tk1, w),
                      !.worker[w] = worker_assign_task(@, t)]
  IN assign_task(s1, t, w)

\* lines 40-126: the loop over unassigned_tasks; random.choice draws from the
\* process-wide generator, which nothing in the repository seeds, so every
\* finalist is a possible outcome: the result is the set of possible
\* (world, assignments, log) outcomes
RECURSIVE composite_loop(_, _, _, _, _)
composite_loop(s, ts, p, now, acc) ==
  IF ts = <<>> \/ s.exc # "" THEN {[s |-> s, assignments |-> acc, log |-> <<>>]}
  ELSE LET t == Head(ts)
           c == candidates(s, t, p, now)
           ch == choices(s, t, p, now)
       IN IF ch = {}
          THEN {[r EXCEPT !.log = <<Decision(s, t, now, c, None, s)>> \o @] :
                  r \in composite_loop(s, Tail(ts), p, now, acc)}
          ELSE UNION {
                 LET s1 == composite_commit(s, t, w, now)
                 IN {[r EXCEPT !.log = <<Decision(s, t, now, c, w, s1)>> \o @] :
                       r \in composite_loop(s1, Tail(ts), p, now,
                               IF s1.exc = ""
                               THEN Append(acc, composite_record(s, t, w, p, now))
                               ELSE acc)}
                 : w \in ch}

\* composite.assign; line 38 reads t.worker_id of every active task: with
\* Task objects that have no such attribute (models/task.py sets none) the
\* call raises AttributeError unless the active pool is empty
composite_assign(s, now, p, attr) ==
  IF s.active_tasks # <<>> /\ ~attr
  THEN {[s |-> [s EXCEPT !.exc = "AttributeError"], assignments |-> <<>>,
         log |-> <<>>]}
  ELSE composite_loop(s,
         SelectSeq(s.active_tasks, LAMBDA t : s.task[t].start_time = None),
         p, now, <<>>)

\* strategies/__init__.py: the names greedy.py and composite.py register
Registered == {"greedy", "composite"}

\* ------------------------------------------------------- run_simulation
\* lines 107-113 completing nothing
instant_complete_none(s, as, now) == s

\* lines 107-113: complete every assignment of this tick
RECURSIVE instant_complete(_, _, _)
instant_complete(s, as, now) ==
  IF as = <<>> \/ s.exc # "" THEN s
  ELSE LET tid == Head(as)[1]
           wid == Head(as)[2]
       IN IF ~InSeq(tid, s.assigned_tasks) \/ ~InSeq(wid, s.assigned_workers)
          THEN [s EXCEPT !.exc = "StopIteration"]
          ELSE instant_complete(complete_task(s, tid, wid, now), Tail(as), now)

\* lines 66-72: the first tick's time
FirstTime(start, ww, tt) ==
  IF start = None
  THEN SetMin({ww[w].release_time : w \in WorkerIds}
              \cup {tt[t].release_time : t \in TaskIds})
  ELSE start

\* config.py lines 7-14: strategy_params of SIM_CONFIG (score_filter is not
\* among them and takes the default of composite.assign, 0.8)
ConfigParams == [lambda1 |-> 10, lambda2 |-> 10, lambda3 |-> 5, k |-> 15,
                 score_filter |-> 8, soft_threshold |-> 40]

\* the strategy_params a caller may give instead; the last one makes every
\* score negative (a cost weight on the utility term) with a soft threshold
\* below every score
ParamSets == {ConfigParams,
              [ConfigParams EXCEPT !.k = 1],
              [ConfigParams EXCEPT !.k = 0, !.lambda1 = 0],
              [ConfigParams EXCEPT !.lambda1 = 0, !.lambda2 = 0, !.lambda3 = -5,
                                   !.soft_threshold = -1000]}

StartTimes == {None, 2}
EndTimes == {None, 1, 5}

IdSeq(n) == [i \in 1..n |-> i]

\* the state run_simulation starts its loop in, for Task objects that carry
\* a worker_id attribute or not, strategy_params drawn from P, workers drawn
\* from WI and tasks from TI
InitRun(attr, P, WI, TI, G) ==
  /\ \E wi \in [WorkerIds -> WI], ti \in [TaskIds -> TI],
        start \in StartTimes, g \in G :
       /\ worker = [w \in WorkerIds |-> NewWorker(wi[w], g)]
       /\ task = [t \in TaskIds |-> NewTask(ti[t])]
       /\ current_time = FirstTime(start, wi, ti)
  /\ all_workers = IdSeq(NumWorkers)
  /\ all_tasks = IdSeq(NumTasks)
  /\ available_workers = <<>>
  /\ active_tasks = <<>>
  /\ assigned_tasks = <<>>
  /\ assigned_workers = <<>>
  /\ completed_tasks = <<>>
  /\ cfg \in [assignment_strategy : StrategyNames,
              service_time_mode : ServiceModes,
              teleport_on_complete : BOOLEAN,
              strategy_params : P]
  /\ has_worker_id = attr
  /\ end_time \in EndTimes
  /\ time_step \in TimeSteps
  /\ tick = 0
  /\ assignments = <<>>
  /\ pc = "step"
  /\ error = ""
  /\ last = [op |-> "init", t |-> None, w |-> None, now |-> None]
  /\ pre = World
  /\ released_at = [worker |-> [w \in WorkerIds |-> <<>>],
                    task |-> [t \in TaskIds |-> <<>>]]
  /\ decisions = <<>>
  /\ snapshot = <<>>

\* Task objects built by models/task.py have no worker_id attribute
Init == InitRun(FALSE, {ConfigParams}, WorkerInputs, TaskInputs, {GammaTenths})

\* history: the call just made and the world it was made in
Call(op, t, w, now) ==
  /\ last' = [op |-> op, t |-> t, w |-> w, now |-> now]
  /\ pre' = World

\* the release log: every entity a release call at `now` moves gets `now` appended
LogRelease(s, now) ==
  released_at' =
    [worker |-> [w \in WorkerIds |->
                   IF InSeq(w, to_release_workers(s, now))
                   THEN Append(released_at.worker[w], now) ELSE released_at.worker[w]],
     task |-> [t \in TaskIds |->
                   IF InSeq(t, to_release_tasks(s, now))
                   THEN Append(released_at.task[t], now) ELSE released_at.task[t]]]

\* An exception leaves run_simulation: the run is over.
Outcome(s, nextpc) ==
  /\ Install(s)
  /\ error' = s.exc
  /\ pc' = IF s.exc = "" THEN nextpc ELSE "aborted"

\* line 84: state.step(current_time)
Step ==
  /\ pc = "step"
  /\ Outcome(step(World, current_time), "assign")
  /\ LogRelease(World, current_time)
  /\ Call("step", None, None, current_time)
  /\ UNCHANGED <<cfg, has_worker_id, snapshot, end_time, time_step, current_time, tick, assignments, decisions>>

\* line 102: an unknown name raises ValueError in get_strategy
AssignUnknown ==
  /\ pc = "assign"
  /\ cfg.assignment_strategy \notin Registered
  /\ pc' = "aborted"
  /\ error' = "ValueError"
  /\ Call("get_strategy", None, None, current_time)
  /\ UNCHANGED <<pools, worker, task, cfg, has_worker_id, snapshot, end_time, time_step, current_time,
                 tick, assignments, decisions, released_at>>

AssignGreedy ==
  /\ pc = "assign"
  /\ cfg.assignment_strategy = "greedy"
  /\ LET r == greedy_assign(World, current_time)
     IN /\ Outcome(r.s, "complete")
        /\ assignments' = r.assignments
        /\ decisions' = r.log
  /\ Call("assign", None, None, current_time)
  /\ UNCHANGED <<cfg, has_worker_id, snapshot, end_time, time_step, current_time, tick, released_at>>

\* lines 102-105 with composite: the loop of line 104 unpacks each record
\* into three names and composite's records have six fields, so a non-empty
\* result raises ValueError, after the strategy has changed the state
AssignComposite ==
  /\ pc = "assign"
  /\ cfg.assignment_strategy = "composite"
  /\ \E r \in composite_assign(World, current_time, cfg.strategy_params,
                                has_worker_id) :
       /\ Outcome(IF r.s.exc = "" /\ r.assignments # <<>>
                  THEN [r.s EXCEPT !.exc = "ValueError"] ELSE r.s, "complete")
       /\ assignments' = r.assignments
       /\ decisions' = r.log
  /\ Call("assign", None, None, current_time)
  /\ UNCHANGED <<cfg, has_worker_id, snapshot, end_time, time_step, current_time, tick, released_at>>

\* lines 108-113
InstantComplete ==
  /\ pc = "complete"
  /\ IF cfg.service_time_mode = "instant"
     THEN Outcome(instant_complete(World, assignments, current_time), "advance")
     ELSE Outcome(World, "advance")
  /\ Call("instant", None, None, current_time)
  /\ UNCHANGED <<cfg, has_worker_id, snapshot, end_time, time_step, current_time, tick, assignments, decisions,
                 released_at>>

\* the termination test without state.assigned_tasks
Finished_ignores_assigned(now) ==
  IF end_time = None
  THEN all_tasks = <<>> /\ active_tasks = <<>>
  ELSE now > end_time

\* ---- metrics/tracker.py
RECURSIVE SeqSum(_)
SeqSum(x) == IF x = <<>> THEN 0 ELSE Head(x) + SeqSum(Tail(x))

\* _jains_fairness without the guards for an empty list and a zero denominator
jains_fairness_unguarded(values) ==
  [num |-> SeqSum(values) * SeqSum(values),
   den |-> Len(values) * SeqSum([i \in 1..Len(values) |-> values[i] * values[i]])]

\* _jains_fairness, lines 105-113; the float result as an exact fraction
jains_fairness(values) ==
  IF values = <<>> THEN [num |-> 1, den |-> 1]
  ELSE LET numerator == SeqSum(values) * SeqSum(values)
           denominator == Len(values)
                          * SeqSum([i \in 1..Len(values) |-> values[i] * values[i]])
       IN IF denominator # 0 THEN [num |-> numerator, den |-> denominator]
          ELSE [num |-> 1, den |-> 1]

\* snapshot, lines 44-46: the counts of the released workers (the tasks of
\* completed_tasks have no completed_tasks attribute and are filtered out)
completed_counts(s) ==
  LET ws == s.available_workers \o s.assigned_workers
  IN [i \in 1..Len(ws) |-> s.worker[ws[i]].completed_tasks]

\* snapshot, lines 68-79: the fields of the record this model follows
snapshot_record(s, now) ==
  [time |-> now,
   backlog |-> Len(s.active_tasks),
   assigned |-> Len(s.assigned_tasks),
   completed_total |-> Len(s.completed_tasks),
   values |-> completed_counts(s),
   jfi |-> jains_fairness(completed_counts(s))]

\* lines 150-159: whether the loop breaks, with current_time already advanced
Finished(now) ==
  IF end_time = None
  THEN all_tasks = <<>> /\ active_tasks = <<>> /\ assigned_tasks = <<>>
  ELSE now > end_time

\* lines 145-159: the metrics snapshot; current_time += step; tick += 1; the
\* termination test.
\* The model stops exploring a run after MaxTick ticks (pc = "horizon").
Advance ==
  /\ pc = "advance"
  /\ current_time' = current_time + time_step
  /\ tick' = tick + 1
  /\ pc' = IF Finished(current_time + time_step) THEN "done"
           ELSE IF tick + 1 >= MaxTick THEN "horizon" ELSE "step"
  /\ Call("advance", None, None, current_time)
  /\ snapshot' = <<snapshot_record(World, current_time)>>
  /\ UNCHANGED <<pools, worker, task, cfg, has_worker_id, end_time, time_step, assignments, decisions,
                 error, released_at>>

Next ==
  \/ Step
  \/ AssignUnknown
  \/ AssignGreedy
  \/ AssignComposite
  \/ InstantComplete
  \/ Advance

Spec == Init /\ [][Next]_vars

\* Runs without end time, over the first two workers and the first and third
\* task of the catalogue.  run_simulation is one sequential loop: a statement
\* that can execute does.  Every step of Next moves pc and Next is enabled
\* at every position inside the loop, so weak fairness of Next is weak
\* fairness of the position moving on.
LoopPositions == {"step", "assign", "complete", "advance"}
LoopMoves == pc \in LoopPositions /\ pc' \in LoopPositions \cup {"done", "aborted", "horizon"}

LiveWorkerInputs == {wi \in WorkerInputs : wi.release_time = 0}
LiveTaskInputs == {ti \in TaskInputs : ti.pickup_lon = 1}

InitLive ==
  /\ InitRun(FALSE, {ConfigParams}, LiveWorkerInputs, LiveTaskInputs, {GammaTenths})
  /\ end_time = None

SpecLive == InitLive /\ [][Next]_vars /\ WF_pc(LoopMoves)

\* ------------------------------------------------------------------------
\* Runs under a SIM_CONFIG whose strategy_params give another gamma: the
\* workers read it when they are built (worker.py line 38).  In tenths: 0,
\* the 0.3 of config.py, 1.
\* ------------------------------------------------------------------------
Gammas == {0, GammaTenths, 10}

InitGamma ==
  /\ InitRun(FALSE, {ConfigParams}, WorkerInputs, LiveTaskInputs, Gammas)
  /\ end_time = None

SpecGamma == InitGamma /\ [][Next]_vars

\* ------------------------------------------------------------------------
\* Runs whose inputs include a worker released after its deadline or a task
\* released after its expiry: Worker.__init__ and Task.__init__ store the
\* fields they are given and run_simulation takes the objects as they are.
\* ------------------------------------------------------------------------
LateWorkerInputs ==
  { [start_lat |-> 0, start_lon |-> 0, release_time |-> 0, deadline |-> 20],
    [start_lat |-> 0, start_lon |-> 0, release_time |-> 3, deadline |-> 2] }

LateTaskInputs ==
  { [pickup_lat |-> 0, pickup_lon |-> 1, dropoff_lat |-> 0, dropoff_lon |-> 0,
     release_time |-> 0, expire_time |-> 20],
    [pickup_lat |-> 0, pickup_lon |-> 0, dropoff_lat |-> 0, dropoff_lon |-> 0,
     release_time |-> 1, expire_time |-> 0] }

InitLate == InitRun(FALSE, {ConfigParams}, LateWorkerInputs, LateTaskInputs, {GammaTenths})

SpecLate == InitLate /\ [][Next]_vars

\* ------------------------------------------------------------------------
\* A caller that holds the StateManager of a greedy run and, between two
\* calls of the loop, makes one call of its own to release, assign_task,
\* complete_task or a worker's update_idle with arguments of its choice; the
\* run is not continued after that call (pc = "called").
\* ------------------------------------------------------------------------
Running == {"step", "assign", "complete", "advance"}

InitSM ==
  /\ Init
  /\ cfg.assignment_strategy = "greedy"
  /\ cfg.teleport_on_complete
  /\ end_time = None

CallRelease ==
  /\ pc \in Running
  /\ \E now \in {current_time, current_time + time_step} :
       /\ Install(release(World, now))
       /\ LogRelease(World, now)
       /\ Call("release", None, None, now)
  /\ pc' = "called"
  /\ UNCHANGED <<cfg, has_worker_id, snapshot, end_time, time_step, current_time, tick, assignments, decisions, error>>

CallAssignTask ==
  /\ pc \in Running
  /\ \E t \in TaskIds, w \in WorkerIds :
       LET s == assign_task(World, t, w)
       IN /\ Install(s)
          /\ error' = s.exc
          /\ Call("assign_task", t, w, current_time)
  /\ pc' = "called"
  /\ UNCHANGED <<cfg, has_worker_id, snapshot, end_time, time_step, current_time, tick, assignments, decisions,
                 released_at>>

CallCompleteTask ==
  /\ pc \in Running
  /\ \E t \in TaskIds, w \in WorkerIds :
       LET s == complete_task(World, t, w, current_time)
       IN /\ Install(s)
          /\ error' = s.exc
          /\ Call("complete_task", t, w, current_time)
  /\ pc' = "called"
  /\ UNCHANGED <<cfg, has_worker_id, snapshot, end_time, time_step, current_time, tick, assignments, decisions,
                 released_at>>

\* worker.update_idle(now) on any worker of the run, busy or not
CallUpdateIdle ==
  /\ pc \in Running
  /\ \E w \in WorkerIds, now \in {current_time, current_time + time_step} :
       /\ Install([World EXCEPT !.worker[w] = update_idle(@, now)])
       /\ Call("update_idle", None, w, now)
  /\ pc' = "called"
  /\ UNCHANGED <<cfg, has_worker_id, snapshot, end_time, time_step, current_time, tick,
                 assignments, decisions, error, released_at>>

NextSM ==
  \/ Step
  \/ AssignGreedy
  \/ InstantComplete
  \/ Advance
  \/ CallRelease
  \/ CallAssignTask
  \/ CallCompleteTask
  \/ CallUpdateIdle

SpecSM == InitSM /\ [][NextSM]_vars

\* ------------------------------------------------------------------------
\* A caller of _jains_fairness with a list of non-negative counts of its
\* choice, standing where snapshot calls it with the workers' counts.
\* ------------------------------------------------------------------------
CountLists == UNION {[1..n -> 0..MaxCount] : n \in 0..MaxLen}

InitJFI ==
  /\ InitSM
  /\ cfg.service_time_mode = "instant"
  /\ \A w \in WorkerIds : worker[w].start_lon = 0 /\ worker[w].release_time = 0
  /\ \A t \in TaskIds : task[t].release_time = 0

CallJainsFairness ==
  /\ pc = "step"
  /\ \E values \in CountLists :
       snapshot' = <<[snapshot_record(World, current_time)
                        EXCEPT !.values = values, !.jfi = jains_fairness(values)]>>
  /\ pc' = "called"
  /\ Call("_jains_fairness", None, None, current_time)
  /\ UNCHANGED <<pools, worker, task, cfg, has_worker_id, end_time, time_step,
                 current_time, tick, assignments, decisions, error, released_at>>

NextJFI == CallJainsFairness

SpecJFI == InitJFI /\ [][NextJFI]_vars

\* ------------------------------------------------------------------------
\* A driver that calls the strategies itself, the way run_simulation's loop
\* does but keeping the records a strategy returns instead of unpacking them:
\* each tick state.step(now), then strategy(state, now, **strategy_params),
\* then the clock advances.  Its Task objects carry worker_id = None, so
\* composite.assign gets past line 38; composite is driven in distance mode
\* (completion by step), greedy in both modes.
\* ------------------------------------------------------------------------
InitCF ==
  /\ InitRun(TRUE, ParamSets, DriverWorkerInputs, TaskInputs, {GammaTenths})
  /\ cfg.assignment_strategy \in Registered
  /\ cfg.assignment_strategy = "greedy" => cfg.strategy_params = ConfigParams
  /\ cfg.assignment_strategy = "composite" => cfg.service_time_mode = "distance"
  /\ cfg.teleport_on_complete
  /\ end_time = None

\* composite.assign(state, now, **strategy_params), the result kept
CallComposite ==
  /\ pc = "assign"
  /\ cfg.assignment_strategy = "composite"
  /\ \E r \in composite_assign(World, current_time, cfg.strategy_params,
                                has_worker_id) :
       /\ Outcome(r.s, "complete")
       /\ assignments' = r.assignments
       /\ decisions' = r.log
  /\ Call("assign", None, None, current_time)
  /\ UNCHANGED <<cfg, has_worker_id, snapshot, end_time, time_step, current_time, tick,
                 released_at>>

NextCF ==
  \/ Step
  \/ AssignGreedy
  \/ CallComposite
  \/ InstantComplete
  \/ Advance

SpecCF == InitCF /\ [][NextCF]_vars

\* ======================================================================
\* Properties
\* ======================================================================
\* The end of a tick: the loop body has run to its last statement.
EndOfTick == last.op = "advance"

TaskPools == <<all_tasks, active_tasks, assigned_tasks, completed_tasks>>
WorkerPools == <<all_workers, available_workers, assigned_workers>>

Occurrences(x, ps) ==
  LET RECURSIVE Sum(_)
      Sum(i) == IF i = 0 THEN 0 ELSE Count(x, ps[i]) + Sum(i - 1)
  IN Sum(Len(ps))

TotalLen(ps) ==
  LET RECURSIVE Sum(_)
      Sum(i) == IF i = 0 THEN 0 ELSE Len(ps[i]) + Sum(i - 1)
  IN Sum(Len(ps))

\* C1: at the end of every tick every input task occurs exactly once in the
\* four task pools (pending, active, assigned, completed) taken together, and
\* the four pool sizes sum to the number of input tasks.
C1_TaskPartition ==
  EndOfTick =>
    /\ \A t \in TaskIds : Occurrences(t, TaskPools) = 1
    /\ TotalLen(TaskPools) = NumTasks

\* a tick ends with one task still assigned and another one completed
C1_Witness ==
  /\ EndOfTick
  /\ assigned_tasks # <<>>
  /\ completed_tasks # <<>>
  /\ C1_TaskPartition

\* C2: at the end of every tick every input worker occurs exactly once in the
\* three worker pools (pending, available, assigned) taken together, and the
\* three pool sizes sum to the number of input workers.
C2_WorkerPartition ==
  EndOfTick =>
    /\ \A w \in WorkerIds : Occurrences(w, WorkerPools) = 1
    /\ TotalLen(WorkerPools) = NumWorkers

\* a tick ends with one worker busy and another back in the available pool
\* after a completion
C2_Witness ==
  /\ EndOfTick
  /\ assigned_workers # <<>>
  /\ \E w \in WorkerIds : InSeq(w, available_workers) /\ worker[w].completed_tasks > 0
  /\ C2_WorkerPartition

\* C3: in every reachable state of a run the assignment edges agree in both
\* directions: an assigned task's worker is in the assigned-worker pool and
\* refers back to the task, an assigned worker's task is in the assigned-task
\* pool and refers back to the worker; the two pools have the same size and
\* no worker or task occurs twice in them.
C3_EdgesConsistent ==
  /\ \A i \in 1..Len(assigned_tasks) :
       LET t == assigned_tasks[i]
           w == task[t].assigned_worker
       IN /\ w # None
          /\ InSeq(w, assigned_workers)
          /\ worker[w].assigned_task = t
  /\ \A i \in 1..Len(assigned_workers) :
       LET w == assigned_workers[i]
           t == worker[w].assigned_task
       IN /\ t # None
          /\ InSeq(t, assigned_tasks)
          /\ task[t].assigned_worker = w
  /\ Len(assigned_tasks) = Len(assigned_workers)
  /\ \A w \in WorkerIds : Count(w, assigned_workers) <= 1
  /\ \A t \in TaskIds : Count(t, assigned_tasks) <= 1

\* an edge to a worker that served another task before, in distance mode
C3_Witness ==
  /\ cfg.service_time_mode = "distance"
  /\ \E w \in WorkerIds :
       /\ InSeq(w, assigned_workers)
       /\ worker[w].completed_tasks > 0
       /\ InSeq(worker[w].assigned_task, assigned_tasks)

Released(w) == ~InSeq(w, all_workers)

\* C4: in every reachable state every released worker's availability flag is
\* true exactly when its assigned-task reference is unset.
C4_AvailableIffUnassigned ==
  \A w \in WorkerIds :
    Released(w) => (worker[w].available <=> worker[w].assigned_task = None)

\* C5: in the state a release(now) call leaves, a second release with the
\* same now changes no pool and no entity.
C5_ReleaseIdempotent ==
  last.op = "release" => release(World, last.now) = World

\* a release call at the time at which the tick's own release has already
\* moved a worker and a task, with another worker still pending
C5_Witness ==
  /\ last.op = "release"
  /\ \E w \in WorkerIds :
       InSeq(w, pre.available_workers) /\ released_at.worker[w] = <<last.now>>
  /\ \E t \in TaskIds :
       InSeq(t, pre.active_tasks) /\ released_at.task[t] = <<last.now>>
  /\ all_workers # <<>>

\* C6: release(now) appends to the available / active pool exactly the
\* pending workers / tasks with release_time <= now, in pending order, keeps
\* the pending ones with release_time > now in order, and changes neither the
\* assigned and completed pools nor any entity; and during a run no entity is
\* outside the pending pool while the tick time is below its release_time.
C6_ReleaseExact ==
  /\ last.op = "release" =>
       LET DueW(w) == pre.worker[w].release_time <= last.now
           LaterW(w) == pre.worker[w].release_time > last.now
           DueT(t) == pre.task[t].release_time <= last.now
           LaterT(t) == pre.task[t].release_time > last.now
       IN
       /\ available_workers = pre.available_workers \o SelectSeq(pre.all_workers, DueW)
       /\ all_workers = SelectSeq(pre.all_workers, LaterW)
       /\ active_tasks = pre.active_tasks \o SelectSeq(pre.all_tasks, DueT)
       /\ all_tasks = SelectSeq(pre.all_tasks, LaterT)
       /\ assigned_tasks = pre.assigned_tasks
       /\ assigned_workers = pre.assigned_workers
       /\ completed_tasks = pre.completed_tasks
       /\ worker = pre.worker
       /\ task = pre.task
  /\ pc # "called" =>
       /\ \A w \in WorkerIds :
            ~InSeq(w, all_workers) => worker[w].release_time <= current_time
       /\ \A t \in TaskIds :
            ~InSeq(t, all_tasks) => task[t].release_time <= current_time

\* a release call that moved one pending task and left another one pending
C6_Witness ==
  /\ last.op = "release"
  /\ Len(active_tasks) > Len(pre.active_tasks)
  /\ all_tasks # <<>>
  /\ Len(available_workers) > Len(pre.available_workers)

\* the time of the run's first tick and of the last tick whose step has run
FirstTickTime == current_time - tick * time_step
LastStepTime == IF last.op = "advance" THEN current_time - time_step ELSE current_time

\* r is the first tick time that is >= rt
FirstTickFrom(r, rt) ==
  /\ r >= rt
  /\ r = FirstTickTime \/ r - time_step < rt

\* C7 as stated: when a run has ended, every worker and every task has
\* undergone the release transition exactly once, at the first tick whose
\* time is >= its release_time.
C7_ReleasedExactlyOnce ==
  pc = "done" =>
    /\ \A w \in WorkerIds :
         /\ Len(released_at.worker[w]) = 1
         /\ FirstTickFrom(released_at.worker[w][1], worker[w].release_time)
    /\ \A t \in TaskIds :
         /\ Len(released_at.task[t]) = 1
         /\ FirstTickFrom(released_at.task[t][1], task[t].release_time)

ReleasedOnce(log, rt, pending) ==
  /\ Len(log) <= 1
  /\ Len(log) = 1 => ~pending /\ FirstTickFrom(log[1], rt)
  /\ Len(log) = 0 => pending
  /\ (last.op # "init" /\ rt <= LastStepTime) => Len(log) = 1

\* C7 amended: in every state of a run every worker and every task has been
\* released at most once; one that has been released was released at the
\* first tick whose time is >= its release_time and is not pending again; one
\* that has not been released is pending; and once the run has executed a
\* tick whose time is >= its release_time it has been released.
C7_ReleasedAtMostOnce ==
  /\ \A w \in WorkerIds :
       ReleasedOnce(released_at.worker[w], worker[w].release_time, InSeq(w, all_workers))
  /\ \A t \in TaskIds :
       ReleasedOnce(released_at.task[t], task[t].release_time, InSeq(t, all_tasks))

\* a finished run in which a worker was released at a tick after the first
\* one, later than its release_time
C7_Witness ==
  /\ pc = "done"
  /\ \E w \in WorkerIds :
       /\ Len(released_at.worker[w]) = 1
       /\ released_at.worker[w][1] > worker[w].release_time
       /\ released_at.worker[w][1] > FirstTickTime
  /\ \E t \in TaskIds : InSeq(t, completed_tasks)

PoolsUnchanged ==
  /\ all_workers = pre.all_workers
  /\ all_tasks = pre.all_tasks
  /\ available_workers = pre.available_workers
  /\ active_tasks = pre.active_tasks
  /\ assigned_tasks = pre.assigned_tasks
  /\ assigned_workers = pre.assigned_workers
  /\ completed_tasks = pre.completed_tasks

\* C8: assign_task(task, worker) called with the task not in the active pool
\* or the worker not in the available pool raises an error and leaves every
\* pool as it was.
C8_AssignRejectsAtomically ==
  (/\ last.op = "assign_task"
   /\ ~InSeq(last.t, pre.active_tasks) \/ ~InSeq(last.w, pre.available_workers))
  => error # "" /\ PoolsUnchanged

\* C9: complete_task(task, worker, now) called with the task not in the
\* assigned-task pool or the worker not in the assigned-worker pool raises an
\* error, appends nothing to the completed and available pools and leaves the
\* worker's completed count as it was.
C9_CompleteRejects ==
  (/\ last.op = "complete_task"
   /\ ~InSeq(last.t, pre.assigned_tasks) \/ ~InSeq(last.w, pre.assigned_workers))
  => /\ error # ""
     /\ completed_tasks = pre.completed_tasks
     /\ available_workers = pre.available_workers
     /\ worker[last.w].completed_tasks = pre.worker[last.w].completed_tasks

\* C10: complete_task(task, worker, now) on an assigned task and an assigned
\* worker removes both from the assigned pools, appends the task to the
\* completed pool and the worker to the available pool, raises that worker's
\* completed count by one, and changes no other worker, no task and no other
\* pool.
C10_CompleteMoves ==
  (/\ last.op = "complete_task"
   /\ InSeq(last.t, pre.assigned_tasks)
   /\ InSeq(last.w, pre.assigned_workers))
  => /\ error = ""
     /\ ~InSeq(last.t, assigned_tasks)
     /\ ~InSeq(last.w, assigned_workers)
     /\ \A t \in TaskIds \ {last.t} : Count(t, assigned_tasks) = Count(t, pre.assigned_tasks)
     /\ \A w \in WorkerIds \ {last.w} :
          Count(w, assigned_workers) = Count(w, pre.assigned_workers)
     /\ completed_tasks = Append(pre.completed_tasks, last.t)
     /\ available_workers = Append(pre.available_workers, last.w)
     /\ worker[last.w].completed_tasks = pre.worker[last.w].completed_tasks + 1
     /\ \A w \in WorkerIds \ {last.w} : worker[w] = pre.worker[w]
     /\ task = pre.task
     /\ all_workers = pre.all_workers
     /\ all_tasks = pre.all_tasks
     /\ active_tasks = pre.active_tasks

\* the call completes one of two assigned pairs
C10_Witness ==
  /\ last.op = "complete_task"
  /\ InSeq(last.t, pre.assigned_tasks)
  /\ pre.task[last.t].assigned_worker = last.w
  /\ InSeq(last.w, pre.assigned_workers)
  /\ assigned_tasks # <<>>
  /\ InSeq(last.t, completed_tasks)

\* ------------------------------------------------------------------------
\* the workers that completed a task in the call just made
Completers == {w \in WorkerIds :
                 worker[w].completed_tasks = pre.worker[w].completed_tasks + 1}

\* C11: the teleport_on_complete flag of the configuration given to the run
\* decides where a worker is after completing a task: flag false, the worker
\* is where it was before the completion; flag true, at the task's dropoff.
C11_TeleportFollowsRunConfig ==
  last.op \in {"step", "instant"} =>
    \A w \in Completers :
      LET t == pre.worker[w].assigned_task
      IN IF cfg.teleport_on_complete
         THEN /\ worker[w].start_lat = task[t].dropoff_lat
              /\ worker[w].start_lon = task[t].dropoff_lon
         ELSE /\ worker[w].start_lat = pre.worker[w].start_lat
              /\ worker[w].start_lon = pre.worker[w].start_lon

\* C12: greedy never commits an assignment whose projected finish time is
\* after the task's expire_time.
C12_GreedyRespectsExpiry ==
  cfg.assignment_strategy = "greedy" =>
    \A t \in TaskIds :
      task[t].finish_time # None => task[t].finish_time <= task[t].expire_time

\* ------------------------------------------------------------------------
\* A decision of the last matching pass, read against the workers it saw
Decisions == {decisions[i] : i \in 1..Len(decisions)}
Snap(d) == [worker |-> d.wk, task |-> task]
Avail(d) == {d.avail[i] : i \in 1..Len(d.avail)}
Cands(d) == {d.cands[i] : i \in 1..Len(d.cands)}
Pos(x, q) == CHOOSE i \in 1..Len(q) : q[i] = x
DPick(d, v) == d_pick(Snap(d), d.t, v)
Eta(d, v) == finish_eta(Snap(d), d.t, v, d.now)
DeadlineOk(d, v) == Eta(d, v) <= d.wk[v].deadline
ExpiryOk(d, v) == Eta(d, v) <= task[d.t].expire_time
Greedy == cfg.assignment_strategy = "greedy"
Composite == cfg.assignment_strategy = "composite"

\* C13: greedy never assigns a task to a worker whose deadline is before the
\* projected finish time, even if that worker is the nearest: the worker it
\* commits is a nearest one among the available workers that can finish by
\* their deadline, and a task stays uncommitted only if there is none.
C13_GreedyRespectsDeadline ==
  Greedy =>
    \A d \in Decisions :
      IF d.w = None
      THEN \A v \in Avail(d) : ~DeadlineOk(d, v)
      ELSE /\ DeadlineOk(d, d.w)
           /\ task[d.t].finish_time = Eta(d, d.w)
           /\ task[d.t].finish_time <= worker[d.w].deadline
           /\ \A v \in Avail(d) : DeadlineOk(d, v) => DPick(d, d.w) <= DPick(d, v)

\* a commit that passed over a nearer available worker because of its deadline
C13_Witness ==
  /\ Greedy
  /\ \E d \in Decisions :
       /\ d.w # None
       /\ \E v \in Avail(d) : DPick(d, v) < DPick(d, d.w) /\ ~DeadlineOk(d, v)

Score(d, v) == score(Snap(d), d.t, v, cfg.strategy_params, d.now)
MaxScore(d) == SetMax({Score(d, v) : v \in Cands(d)})
InBand(d) == {v \in Cands(d) :
                10 * Score(d, v) >= cfg.strategy_params.score_filter * MaxScore(d)}
FeasibleAvail(d) == {v \in Avail(d) : DeadlineOk(d, v) /\ ExpiryOk(d, v)}

\* C14: composite scores and assigns feasible pairs only: every candidate it
\* scores, and the worker of every assignment it commits, has a projected
\* finish time at or before the worker's deadline and the task's expire_time.
C14_CompositeFeasibleOnly ==
  Composite =>
    \A d \in Decisions :
      /\ \A v \in Cands(d) : v \in Avail(d) /\ DeadlineOk(d, v) /\ ExpiryOk(d, v)
      /\ d.w # None =>
           /\ d.w \in Cands(d)
           /\ task[d.t].finish_time = Eta(d, d.w)
           /\ task[d.t].finish_time <= worker[d.w].deadline
           /\ task[d.t].finish_time <= task[d.t].expire_time

\* a commit made while an available worker was left out as infeasible
\* because of the task's expiry
C14_Witness ==
  /\ Composite
  /\ \E d \in Decisions :
       /\ d.w # None
       /\ \E v \in Avail(d) : DeadlineOk(d, v) /\ ~ExpiryOk(d, v)

\* C16: in one matching pass (greedy or composite) the tasks are processed in
\* active-pool order, a worker committed to an earlier task is not among the
\* workers a later task is processed against, and no worker gets more than
\* one assignment.
C16_OneAssignmentPerWorkerPerPass ==
  last.op = "assign" /\ error = "" =>
    /\ [i \in 1..Len(decisions) |-> decisions[i].t] = pre.active_tasks
    /\ \A i, j \in 1..Len(decisions) :
         i < j /\ decisions[i].w # None =>
           /\ decisions[i].w \notin Avail(decisions[j])
           /\ decisions[i].w # decisions[j].w
    /\ \A i, j \in 1..Len(assignments) :
         i # j => assignments[i][2] # assignments[j][2]
    /\ LET made == SelectSeq(decisions, LAMBDA d : d.w # None)
       IN /\ Len(made) = Len(assignments)
          /\ \A i \in 1..Len(made) :
               assignments[i][1] = made[i].t /\ assignments[i][2] = made[i].w

\* a composite pass over two tasks that commits the first and processes the
\* second with a worker still available
C16_Witness ==
  /\ Composite
  /\ last.op = "assign" /\ error = ""
  /\ Len(decisions) = 2
  /\ decisions[1].w # None
  /\ decisions[2].avail # <<>>

\* C17: when every candidate composite retained for a task scores below
\* soft_threshold, the task is not assigned in that pass: it stays active
\* with start_time, finish_time and assigned worker unset, and no state
\* changes because of it.
C17_SoftThresholdDefers ==
  Composite =>
    \A d \in Decisions :
      (/\ Cands(d) # {}
       /\ \A v \in Cands(d) :
            Score(d, v) < cfg.strategy_params.soft_threshold * 1000)
      => /\ d.w = None
         /\ ~d.changed
         /\ last.op = "assign" =>
              /\ InSeq(d.t, active_tasks)
              /\ task[d.t].start_time = None
              /\ task[d.t].finish_time = None
              /\ task[d.t].assigned_worker = None
              /\ ~task[d.t].assigned

\* a task with a feasible candidate deferred by the soft threshold
C17_Witness ==
  /\ Composite
  /\ last.op = "assign"
  /\ \E d \in Decisions :
       /\ Cands(d) # {}
       /\ \A v \in Cands(d) :
            Score(d, v) < cfg.strategy_params.soft_threshold * 1000
       /\ d.w = None

\* C18: the worker composite assigns has a score of at least score_filter
\* times the highest score among the task's candidates, and the fewest
\* completed_tasks among the candidates in that band.
C18_BandThenFewestCompleted ==
  Composite =>
    \A d \in Decisions :
      d.w # None =>
        /\ d.w \in InBand(d)
        /\ \A v \in InBand(d) :
             d.wk[d.w].completed_tasks <= d.wk[v].completed_tasks

\* a commit that passed over the best-scoring candidate for one in the band
\* with fewer completed tasks
C18_Witness ==
  /\ Composite
  /\ \E d \in Decisions :
       /\ d.w # None
       /\ \E v \in InBand(d) :
            /\ d.wk[v].completed_tasks > d.wk[d.w].completed_tasks
            /\ Score(d, v) > Score(d, d.w)

\* the feasible available workers ahead of v in the stable nearest-first order
Ahead(d, v) ==
  {u \in FeasibleAvail(d) :
     \/ DPick(d, u) < DPick(d, v)
     \/ DPick(d, u) = DPick(d, v) /\ Pos(u, d.avail) < Pos(v, d.avail)}

\* C19: for k > 0 the candidates composite scores for a task, and so the
\* worker it assigns, are the k nearest feasible available workers; for
\* k <= 0 every feasible available worker is a candidate.
C19_KNearestCandidates ==
  Composite =>
    LET k == cfg.strategy_params.k
    IN \A d \in Decisions :
         /\ Cands(d) = IF k > 0
                       THEN {v \in FeasibleAvail(d) : Cardinality(Ahead(d, v)) < k}
                       ELSE FeasibleAvail(d)
         /\ d.w # None => d.w \in Cands(d)

\* a commit with k = 1 and two feasible available workers
C19_Witness ==
  /\ Composite
  /\ cfg.strategy_params.k = 1
  /\ \E d \in Decisions : d.w # None /\ Cardinality(FeasibleAvail(d)) > 1

DropDist(d) == drop_distance_const(Snap(d), d.t)

\* C21: on every commit, by greedy or composite, the task's start_time is
\* the tick time and its finish_time the tick time plus the travel time over
\* pickup distance + drop distance, the pickup distance measured from where
\* the chosen worker is when the task is assigned.
C21_CommitTimes ==
  \A d \in Decisions :
    d.w # None =>
      /\ task[d.t].start_time = d.now
      /\ task[d.t].pickup_km = DPick(d, d.w)
      /\ task[d.t].drop_km = DropDist(d)
      /\ task[d.t].finish_time = d.now + TravelTime(DPick(d, d.w) + DropDist(d))

\* a commit to a worker that has completed a task before and is away from
\* the pickup point
C21_Witness ==
  \E d \in Decisions :
    /\ d.w # None
    /\ d.wk[d.w].completed_tasks > 0
    /\ DPick(d, d.w) > 0

\* C22: for every task whose times have been set,
\* finish_time > start_time >= release_time.
C22_TimesOrdered ==
  \A t \in TaskIds :
    task[t].start_time # None =>
      /\ task[t].finish_time > task[t].start_time
      /\ task[t].start_time >= task[t].release_time

\* ------------------------------------------------------------------------
DistanceMode == cfg.service_time_mode = "distance"
InstantMode == cfg.service_time_mode = "instant"
NewlyCompleted == {t \in TaskIds : InSeq(t, completed_tasks) /\ ~InSeq(t, pre.completed_tasks)}

\* C23: in distance mode an assigned task is in the completed pool, and its
\* worker back in the available pool, by the end of the first tick whose
\* time is >= its finish_time, and no task is completed at a tick whose time
\* is before its finish_time.
C23_CompletedAtFirstTickDue ==
  DistanceMode /\ error = "" =>
    /\ last.op = "step" =>
         \A t \in NewlyCompleted :
           /\ task[t].finish_time <= last.now
           /\ InSeq(task[t].assigned_worker, available_workers)
    /\ EndOfTick =>
         \A t \in TaskIds :
           InSeq(t, assigned_tasks) => task[t].finish_time > last.now

\* C24: in instant mode every assignment made in a tick is completed in that
\* tick: at the end of every tick both assigned pools are empty, each task
\* assigned in the tick is in the completed pool exactly once and its worker
\* is back in the available pool; no task is ever in the completed pool twice.
C24_InstantCompletesInTick ==
  InstantMode =>
    /\ \A t \in TaskIds : Count(t, completed_tasks) <= 1
    /\ EndOfTick =>
         /\ assigned_tasks = <<>>
         /\ assigned_workers = <<>>
         /\ \A i \in 1..Len(assignments) :
              /\ Count(assignments[i][1], completed_tasks) = 1
              /\ Count(assignments[i][2], available_workers) = 1
              /\ worker[assignments[i][2]].available

\* the end of a later tick that assigned a task, after an earlier tick
\* assigned and completed another
C24_Witness ==
  /\ InstantMode
  /\ EndOfTick
  /\ tick >= 2
  /\ Len(assignments) = 1
  /\ Len(completed_tasks) = 2

\* ------------------------------------------------------------------------
NoTaskLeft == all_tasks = <<>> /\ active_tasks = <<>> /\ assigned_tasks = <<>>

\* C25: with no explicit end time the run stops at the end of the first tick
\* at which no task is pending, active or assigned, and never while some
\* task is pending, active or assigned.
C25_StopsWhenCleared ==
  end_time = None =>
    /\ EndOfTick => (pc = "done" <=> NoTaskLeft)
    /\ pc = "done" => NoTaskLeft /\ EndOfTick

\* a distance-mode run that stops after its third tick or later, having
\* gone on while a task was assigned
C25_Witness ==
  /\ end_time = None
  /\ DistanceMode
  /\ pc = "done"
  /\ tick >= 3
  /\ completed_tasks # <<>>

\* C26: with an explicit end time no tick (release, matching or completion)
\* is executed at a time later than end_time, and the run goes on until the
\* clock has passed end_time.
C26_NoTickAfterEnd ==
  end_time # None =>
    /\ last.op \in {"step", "get_strategy", "assign", "instant"} =>
         last.now <= end_time
    /\ pc = "done" => current_time > end_time

\* ------------------------------------------------------------------------
Untouched(d) ==
  /\ d.w = None
  /\ ~d.changed
  /\ InSeq(d.t, active_tasks)
  /\ task[d.t].start_time = None
  /\ task[d.t].finish_time = None
  /\ task[d.t].assigned_worker = None
  /\ ~task[d.t].assigned

\* C27: a task with no feasible candidate in a tick is not an error: the
\* matching pass raises nothing, leaves the task in the active pool
\* unchanged, and processes every task of the active pool, so the remaining
\* tasks of the tick and the same task at every later tick are evaluated.
C27_NoCandidateDefers ==
  last.op = "assign" =>
    /\ error = ""
    /\ [i \in 1..Len(decisions) |-> decisions[i].t] = pre.active_tasks
    /\ \A d \in Decisions : FeasibleAvail(d) = {} => Untouched(d)

\* ------------------------------------------------------------------------
\* C28: update_idle(worker, now) on an available worker with
\* now >= last_state_ts adds now - last_state_ts to the cumulative idle time
\* and sets the fairness signal to (1 - gamma) * total idle + gamma * the
\* previous signal; on a busy worker it changes neither; in both cases
\* last_state_ts becomes now.
C28_UpdateIdle ==
  last.op = "update_idle" =>
    LET o == pre.worker[last.w]
        n == worker[last.w]
    IN /\ n.last_state_ts = last.now
       /\ o.available /\ last.now >= o.last_state_ts =>
            /\ n.total_idle_time = o.total_idle_time + (last.now - o.last_state_ts)
            /\ n.fairness_ewma.exp <= o.fairness_ewma.exp + 1
            /\ n.fairness_ewma.num
                 * Pow10(o.fairness_ewma.exp + 1 - n.fairness_ewma.exp)
               = (10 - o.gamma) * n.total_idle_time * Pow10(o.fairness_ewma.exp)
                 + o.gamma * o.fairness_ewma.num
       /\ ~o.available =>
            /\ n.total_idle_time = o.total_idle_time
            /\ n.fairness_ewma = o.fairness_ewma

\* a call on an available worker with idle time to add and a previous
\* signal that is not zero
C28_Witness ==
  /\ last.op = "update_idle"
  /\ pre.worker[last.w].available
  /\ last.now > pre.worker[last.w].last_state_ts
  /\ pre.worker[last.w].fairness_ewma.num > 0
  /\ worker[last.w].fairness_ewma # pre.worker[last.w].fairness_ewma

\* ------------------------------------------------------------------------
\* C29: an unknown strategy name is rejected at startup: when the error is
\* raised no release and no fairness update has happened, every entity is
\* still pending and as constructed.
C29_UnknownStrategyRejectedAtStartup ==
  last.op = "get_strategy" /\ error = "ValueError" =>
    /\ Len(all_workers) = NumWorkers
    /\ Len(all_tasks) = NumTasks
    /\ available_workers = <<>>
    /\ active_tasks = <<>>
    /\ \A w \in WorkerIds : /\ released_at.worker[w] = <<>>
                            /\ worker[w].last_state_ts = worker[w].release_time
    /\ \A t \in TaskIds : released_at.task[t] = <<>>

\* C30: an input task with release_time > expire_time, or an input worker
\* with release_time > deadline, is rejected at startup: it is never released
\* and never assigned.
C30_LateInputRejected ==
  /\ \A t \in TaskIds :
       task[t].release_time > task[t].expire_time =>
         /\ released_at.task[t] = <<>>
         /\ InSeq(t, all_tasks)
         /\ task[t].assigned_worker = None
  /\ \A w \in WorkerIds :
       worker[w].release_time > worker[w].deadline =>
         /\ released_at.worker[w] = <<>>
         /\ InSeq(w, all_workers)
         /\ worker[w].assigned_task = None

\* ------------------------------------------------------------------------
\* C31: a task leaves the active pool only by being assigned: an active task
\* whose expire_time has passed is not evicted; it stays active until a
\* matching pass assigns it.
C31_ActiveLeavesOnlyByAssignment ==
  \A t \in TaskIds :
    InSeq(t, pre.active_tasks) /\ ~InSeq(t, active_tasks) =>
      /\ last.op = "assign"
      /\ InSeq(t, assigned_tasks)
      /\ task[t].assigned_worker # None

\* the end of a tick with an active task past its expire_time that was
\* already active when the tick began
C31_Witness ==
  /\ EndOfTick
  /\ \E t \in TaskIds :
       /\ InSeq(t, active_tasks)
       /\ task[t].expire_time + time_step < last.now

\* C32: a run with the composite strategy executes its ticks without
\* aborting.
C32_CompositeRunsWithoutAborting ==
  Composite => error = "" /\ pc # "aborted"

\* ------------------------------------------------------------------------
Snapshots == {snapshot[i] : i \in 1..Len(snapshot)}
SumSq(x) == SeqSum([i \in 1..Len(x) |-> x[i] * x[i]])

\* C33: Jain's Fairness Index over a list of non-negative counts lies in
\* (0, 1], also for an empty or all-zero list, and is exactly 1 when all
\* counts are the same; (sum x)^2 <= n * sum x^2.
C33_JainsIndexRange ==
  \A r \in Snapshots :
    /\ r.jfi.den > 0
    /\ r.jfi.num > 0
    /\ r.jfi.num <= r.jfi.den
    /\ (\A i, j \in 1..Len(r.values) : r.values[i] = r.values[j])
         => r.jfi.num = r.jfi.den
    /\ SeqSum(r.values) * SeqSum(r.values) <= Len(r.values) * SumSq(r.values)
    /\ SumSq(r.values) # 0 =>
         r.jfi.num * (Len(r.values) * SumSq(r.values))
           = r.jfi.den * (SeqSum(r.values) * SeqSum(r.values))

\* an index below 1 for a list with a zero and two different positive counts
C33_Witness ==
  \E r \in Snapshots :
    /\ r.jfi.num < r.jfi.den
    /\ \E i, j, k \in 1..Len(r.values) :
         r.values[i] = 0 /\ r.values[j] > 0 /\ r.values[k] > r.values[j]

\* ------------------------------------------------------------------------
\* C34: a task's start time, finish time, pickup distance, drop distance,
\* assigned flag and assigned worker are set only by an assignment: every
\* task of the pending pool and of the active pool has all of them unset,
\* also a task that earlier matching passes deferred or found infeasible.
C34_UnassignedTasksUnset ==
  \A t \in TaskIds :
    InSeq(t, all_tasks) \/ InSeq(t, active_tasks) =>
      /\ task[t].start_time = None
      /\ task[t].finish_time = None
      /\ task[t].pickup_km = None
      /\ task[t].drop_km = None
      /\ ~task[t].assigned
      /\ task[t].assigned_worker = None

\* a pass that committed one task and left another, released at least one
\* tick earlier, in the active pool
C34_Witness ==
  /\ last.op = "assign"
  /\ \E d, e \in Decisions :
       /\ d.w = None
       /\ InSeq(d.t, active_tasks)
       /\ task[d.t].release_time + time_step <= d.now
       /\ e.w # None
       /\ task[e.t].start_time = e.now

\* ------------------------------------------------------------------------
\* the time worker w has spent serving tasks up to now: for every task
\* committed to w, from its start time to its finish time (or to now while
\* it is still being served)
BusyTime(w, now) ==
  LET part(t) ==
        IF task[t].assigned_worker = w /\ task[t].start_time # None
        THEN (IF task[t].finish_time < now THEN task[t].finish_time ELSE now)
             - task[t].start_time
        ELSE 0
  IN SeqSum([t \in 1..NumTasks |-> part(t)])

\* C35: in distance mode the time a worker spends assigned is never counted
\* as idle: its cumulative idle time is at most the time elapsed since its
\* release minus the time it has spent serving tasks.
C35_BusyTimeNotIdle ==
  DistanceMode /\ last.op = "step" =>
    \A w \in WorkerIds :
      Released(w) =>
        worker[w].total_idle_time + BusyTime(w, last.now)
          <= last.now - worker[w].release_time

Terminated == pc \in {"done", "aborted"}

\* a greedy run without end time holding an active task that no worker of
\* the run can finish by its deadline at the next tick, and so at no later
\* one: the trip from pickup to drop-off alone ends after every deadline.
\* By C31 the task stays active, so the test of lines 151-156 stays false.
NeverServable ==
  /\ Greedy
  /\ end_time = None
  /\ error = ""
  /\ \E t \in TaskIds :
       /\ InSeq(t, active_tasks)
       /\ \A w \in WorkerIds :
            current_time + TravelTime(drop_distance_const(World, t)) > worker[w].deadline

\* C37: with no end time every run over finite inputs eventually terminates,
\* also when a released task never has a feasible worker; such a task is
\* reported unserved at the end of the run.  A run the model leaves at its
\* tick bound counts against the claim only when it holds a task that can
\* never be served.
C37_RunTerminates ==
  <>(Terminated \/ (pc = "horizon" /\ ~NeverServable))

\* ------------------------------------------------------------------------
\* C38: in every state of a run the workers' completed_tasks counts add up
\* to the length of the completed pool; the completed pool only grows (what
\* it held before a call is a prefix of what it holds after); a task is in
\* it at most once and a completed task is in neither the active nor the
\* assigned pool.
C38_CompletedCountsMatchPool ==
  /\ SeqSum([w \in 1..NumWorkers |-> worker[w].completed_tasks]) = Len(completed_tasks)
  /\ Len(pre.completed_tasks) <= Len(completed_tasks)
  /\ SubSeq(completed_tasks, 1, Len(pre.completed_tasks)) = pre.completed_tasks
  /\ \A t \in TaskIds :
       /\ Count(t, completed_tasks) <= 1
       /\ InSeq(t, completed_tasks) =>
            ~InSeq(t, active_tasks) /\ ~InSeq(t, assigned_tasks)

\* both tasks completed, by one worker, in different ticks
C38_Witness ==
  /\ Len(completed_tasks) = 2
  /\ Len(pre.completed_tasks) = 1
  /\ \E w \in WorkerIds : worker[w].completed_tasks = 2

\* ------------------------------------------------------------------------
\* the tasks of the assigned pool before the step that the step completes
DueAtStep == {t \in TaskIds : /\ InSeq(t, pre.assigned_tasks)
                              /\ pre.task[t].finish_time # None
                              /\ pre.task[t].finish_time <= last.now}

\* C39: within a tick the order is release, idle/fairness update, lazy
\* completion, matching.  After step(t): every pending entity with
\* release_time <= t is in its released pool; every worker that was
\* available before the step or is released by it has its idle time and
\* fairness updated to t; every assigned task with finish_time <= t is
\* completed and its worker is in the available pool, not touched by this
\* tick's update.  A matching pass of tick t that returns then has run over
\* exactly these pools and these worker values.
C39_TickOrder ==
  /\ last.op = "step" =>
       /\ \A w \in WorkerIds :
            /\ InSeq(w, pre.all_workers) /\ worker[w].release_time <= last.now =>
                 /\ InSeq(w, available_workers)
                 /\ worker[w].last_state_ts = last.now
                 /\ worker[w].total_idle_time = last.now - worker[w].release_time
            /\ InSeq(w, pre.available_workers) =>
                 /\ InSeq(w, available_workers)
                 /\ worker[w].last_state_ts = last.now
                 /\ worker[w] = update_idle(pre.worker[w], last.now)
       /\ \A t \in TaskIds :
            InSeq(t, pre.all_tasks) /\ task[t].release_time <= last.now =>
              InSeq(t, active_tasks)
       /\ \A t \in DueAtStep :
            LET w == pre.task[t].assigned_worker
            IN /\ InSeq(t, completed_tasks)
               /\ InSeq(w, available_workers)
               /\ worker[w].last_state_ts = pre.worker[w].last_state_ts
               /\ worker[w].total_idle_time = pre.worker[w].total_idle_time
               /\ worker[w].fairness_ewma = pre.worker[w].fairness_ewma
  /\ last.op = "assign" /\ error = "" =>
       /\ [i \in 1..Len(decisions) |-> decisions[i].t] = pre.active_tasks
       /\ decisions # <<>> =>
            /\ decisions[1].avail = pre.available_workers
            /\ decisions[1].wk = pre.worker
            /\ decisions[1].now = last.now

\* distance mode: a worker back from a task in this tick's step, so not
\* touched by this tick's update, receives a task in the same tick's pass
C39_Witness ==
  /\ DistanceMode
  /\ last.op = "assign"
  /\ \E d \in Decisions :
       /\ d.w # None
       /\ d.wk[d.w].completed_tasks >= 1
       /\ d.wk[d.w].last_active_ts # None
       /\ d.wk[d.w].last_state_ts < d.now
       /\ task[d.t].start_time = d.now

\* ------------------------------------------------------------------------
\* fairness values a and b as numerators over one power of ten
FairnessLeq(a, b) ==
  LET e == IF a.exp > b.exp THEN a.exp ELSE b.exp
  IN a.num * Pow10(e - a.exp) <= b.num * Pow10(e - b.exp)

\* C40: for 0 <= gamma <= 1 and tick times that never decrease, every
\* worker's fairness signal is non-negative, is at least what it was before
\* the last call, and is at most the worker's cumulative idle time.
C40_FairnessBounded ==
  \A w \in WorkerIds :
    worker[w].gamma \in 0..10 =>
      /\ worker[w].fairness_ewma.num >= 0
      /\ FairnessLeq(pre.worker[w].fairness_ewma, worker[w].fairness_ewma)
      /\ FairnessLeq(worker[w].fairness_ewma,
                     [num |-> worker[w].total_idle_time, exp |-> 0])

\* a worker with 0 < gamma < 1 updated twice with idle time to add each
\* time: the signal rose at the last update and stays below the idle time
C40_Witness ==
  /\ last.op = "step"
  /\ \E w \in WorkerIds :
       /\ worker[w].gamma \in 1..9
       /\ pre.worker[w].fairness_ewma.num > 0
       /\ ~FairnessLeq(worker[w].fairness_ewma, pre.worker[w].fairness_ewma)
       /\ ~FairnessLeq([num |-> worker[w].total_idle_time, exp |-> 0],
                       worker[w].fairness_ewma)

====
